---- MODULE Spec2Model ----
(***************************************************************************)
(* Model of src/bot_mailtm.py: a Telegram bot that creates disposable      *)
(* mail.tm mailboxes, keeps one Session per Telegram user in the           *)
(* process-wide dict SESSIONS, and extracts 6-digit codes from the newest  *)
(* messages of the mailbox.                                                *)
(*                                                                         *)
(* Strings whose characters matter (message bodies, subjects, timestamps)  *)
(* are sequences of one-character strings.  Python's None is the record    *)
(* None, and a value that is a str or None is [str |-> chars] or None; a   *)
(* dict key that is absent is a field the record lacks; a local            *)
(* that is not bound yet is "" (a string) or <<>> (a sequence).  A handler *)
(* invocation (one run of handle_buttons) is a task; a task is suspended   *)
(* at each await, and one action of the model is the code a task runs from *)
(* the return of one await to the next await.                              *)
(***************************************************************************)
EXTENDS Integers, Sequences, FiniteSets, TLC

VARIABLES
    SESSIONS,   \* the dict SESSIONS: a function from the user ids that have an entry to Session records
    tasks,      \* per handler invocation slot: the locals of handle_buttons and the await it is suspended at
    lastPut,    \* history: per user, the Session of the most recent SESSIONS[user_id] = ... (None if none)
    detail,     \* text pipeline: the message detail handed to normalize_body (None when no detail is involved)
    tin,        \* text pipeline: the string handed to extract_code or to detect_service
    tout        \* text pipeline: None before the call, then what the function called computed and returned

vars == <<SESSIONS, tasks, lastPut, detail, tin, tout>>

None == [none |-> TRUE]

(***************************************************************************)
(* Bounds of the model.                                                    *)
(***************************************************************************)
MaxMsgs == 6        \* longest message list the provider returns when handlers run one at a time
MaxMsgsConc == 1    \* longest message list when handlers interleave
MaxLen == 5         \* longest input string built character by character
MaxParts == 3       \* longest input string built from parts

(***************************************************************************)
(* Program constants.                                                      *)
(***************************************************************************)
CodeLen == 6        \* \d{6} in CODE_REGEX
MaxShown == 5       \* msgs[:5]

(***************************************************************************)
(* Characters.  \d, \s and \w of Python's re on the characters of the      *)
(* model: the ASCII characters and the letters of the Russian alphabet.    *)
(***************************************************************************)
Digits == {"0", "1", "2", "3", "4", "5", "6", "7", "8", "9"}
\* \s on the ASCII characters: space, \t, \n, \r, \f, and the five control
\* characters VT, FS, GS, RS, US, written as their code points in braces.
Spaces == {" ", "\t", "\n", "\r", "\f", "{U+000B}", "{U+001C}", "{U+001D}", "{U+001E}", "{U+001F}"}
\* The letters, lower case and upper case in the same order: a to z, then the
\* Russian alphabet, each Cyrillic letter written as its Unicode name in braces.
LowerLetters == <<
    "a", "b", "c", "d", "e", "f", "g", "h", "i", "j", "k", "l", "m", "n", "o", "p", "q", "r",
    "s", "t", "u", "v", "w", "x", "y", "z", "{a}", "{be}", "{ve}", "{ghe}", "{de}", "{ie}",
    "{io}", "{zhe}", "{ze}", "{i}", "{short_i}", "{ka}", "{el}", "{em}", "{en}", "{o}", "{pe}",
    "{er}", "{es}", "{te}", "{u}", "{ef}", "{ha}", "{tse}", "{che}", "{sha}", "{shcha}",
    "{hard_sign}", "{yeru}", "{soft_sign}", "{e}", "{yu}", "{ya}" >>
UpperLetters == <<
    "A", "B", "C", "D", "E", "F", "G", "H", "I", "J", "K", "L", "M", "N", "O", "P", "Q", "R",
    "S", "T", "U", "V", "W", "X", "Y", "Z", "{A}", "{BE}", "{VE}", "{GHE}", "{DE}", "{IE}",
    "{IO}", "{ZHE}", "{ZE}", "{I}", "{SHORT_I}", "{KA}", "{EL}", "{EM}", "{EN}", "{O}", "{PE}",
    "{ER}", "{ES}", "{TE}", "{U}", "{EF}", "{HA}", "{TSE}", "{CHE}", "{SHA}", "{SHCHA}",
    "{HARD_SIGN}", "{YERU}", "{SOFT_SIGN}", "{E}", "{YU}", "{YA}" >>
Range(f) == {f[i] : i \in DOMAIN f}
Letters == Range(LowerLetters) \cup Range(UpperLetters)
IsDigit(c) == c \in Digits
IsSpace(c) == c \in Spaces
\* \w: a letter, a digit or the underscore
WordChars == Digits \cup Letters \cup {"_"}
IsWord(c) == c \in WordChars

Min(S) == CHOOSE x \in S : \A y \in S : x <= y

(***************************************************************************)
(* re.sub(r"<[^>]+>", " ", text), line 83.  A match starts at a "<" that   *)
(* is followed by at least one character other than ">" and then a ">";    *)
(* it ends at the first ">" after the "<".  Matches are taken leftmost,    *)
(* without overlap, each replaced by one space.                            *)
(***************************************************************************)
TagEnd(s) ==
    IF Len(s) >= 3 /\ s[1] = "<" /\ s[2] # ">" /\ (\E k \in 3..Len(s) : s[k] = ">")
    THEN Min({k \in 3..Len(s) : s[k] = ">"})
    ELSE 0

RECURSIVE StripTags(_)
StripTags(s) ==
    IF s = <<>> THEN <<>>
    ELSE IF TagEnd(s) > 0
         THEN <<" ">> \o StripTags(SubSeq(s, TagEnd(s) + 1, Len(s)))
         ELSE <<Head(s)>> \o StripTags(Tail(s))

(***************************************************************************)
(* re.sub(r"(\d)\s+(\d)", r"\1\2", clean), line 84.  A match is a digit,   *)
(* a maximal run of one or more whitespace characters, and a digit; the    *)
(* scan resumes after the second digit, which is consumed by the match.    *)
(***************************************************************************)
GapEnd(s) ==
    IF Len(s) >= 3 /\ IsDigit(s[1]) /\ IsSpace(s[2])
          /\ (\E k \in 3..Len(s) : ~IsSpace(s[k]))
    THEN LET k == Min({j \in 3..Len(s) : ~IsSpace(s[j])})
         IN  IF IsDigit(s[k]) THEN k ELSE 0
    ELSE 0

RECURSIVE CollapseDigits(_)
CollapseDigits(s) ==
    IF s = <<>> THEN <<>>
    ELSE IF GapEnd(s) > 0
         THEN <<s[1], s[GapEnd(s)]>> \o CollapseDigits(SubSeq(s, GapEnd(s) + 1, Len(s)))
         ELSE <<Head(s)>> \o CollapseDigits(Tail(s))

\* lines 83-84: the string CODE_REGEX is searched in
clean_text(text) == CollapseDigits(StripTags(text))

(***************************************************************************)
(* CODE_REGEX = \b(\d{6})\b, line 22, and CODE_REGEX.search, line 85.      *)
(* \b before a digit needs the start of the string or a non-word           *)
(* character before it; \b after a digit needs the end of the string or a  *)
(* non-word character after it.                                            *)
(***************************************************************************)
\* The pattern without its word boundaries: (\d{6}).
CodeAt_NoBoundary(s, i) ==
    /\ i + CodeLen - 1 <= Len(s)
    /\ \A j \in i..(i + CodeLen - 1) : IsDigit(s[j])

CodeAt(s, i) ==
    /\ i + CodeLen - 1 <= Len(s)
    /\ \A j \in i..(i + CodeLen - 1) : IsDigit(s[j])
    /\ (i = 1 \/ ~IsWord(s[i - 1]))
    /\ (i + CodeLen > Len(s) \/ ~IsWord(s[i + CodeLen]))

CODE_REGEX(s) ==
    IF \E i \in 1..Len(s) : CodeAt(s, i)
    THEN [str |-> SubSeq(s, Min({i \in 1..Len(s) : CodeAt(s, i)}),
                            Min({i \in 1..Len(s) : CodeAt(s, i)}) + CodeLen - 1)]
    ELSE None

\* lines 80-86 ("not text" is the empty string: normalize_body never gives None)
extract_code(text) ==
    IF text = <<>> THEN None
    ELSE CODE_REGEX(clean_text(text))

(***************************************************************************)
(* str.lower, line 74, and the substring test "k in t", line 76.           *)
(***************************************************************************)
\* The lower case of each upper case letter.
ToLower ==
    [c \in Range(UpperLetters) |-> LowerLetters[CHOOSE i \in DOMAIN UpperLetters : UpperLetters[i] = c]]

LowerChar(c) == IF c \in DOMAIN ToLower THEN ToLower[c] ELSE c

lower(s) == [i \in 1..Len(s) |-> LowerChar(s[i])]

Contains(k, t) ==
    \E i \in 1..(Len(t) - Len(k) + 1) : SubSeq(t, i, i + Len(k) - 1) = k

\* lines 24-27: the dict SERVICE_RULES in insertion order
SERVICE_RULES == <<
    [name |-> "AdGuard VPN", keys |-> << <<"a", "d", "g", "u", "a", "r", "d">> >>],
    [name |-> "{YU}{be}{u}{es}{te}",
     keys |-> << <<"y", "o", "u", "b", "u", "s", "t">>,
                 <<"{yu}", "{be}", "{u}", "{es}", "{te}">>,
                 <<"u", "b", "u", "s", "t">> >>] >>

UNKNOWN_SERVICE == "Unknown service"    \* the literal of line 78

RuleMatches(rule, t) == \E j \in DOMAIN rule.keys : Contains(rule.keys[j], t)

\* A classifier in which a later rule overrides an earlier one.
detect_service_LastRule(text) ==
    LET t == lower(text)
        hits == {r \in DOMAIN SERVICE_RULES : RuleMatches(SERVICE_RULES[r], t)}
    IN  IF hits # {}
        THEN SERVICE_RULES[CHOOSE r \in hits : \A q \in hits : q <= r].name
        ELSE UNKNOWN_SERVICE

\* lines 73-78
detect_service(text) ==
    LET t == lower(text)
    IN  IF \E r \in DOMAIN SERVICE_RULES : RuleMatches(SERVICE_RULES[r], t)
        THEN SERVICE_RULES[Min({r \in DOMAIN SERVICE_RULES : RuleMatches(SERVICE_RULES[r], t)})].name
        ELSE UNKNOWN_SERVICE

(***************************************************************************)
(* normalize_body, lines 88-93.  A message detail is a record; a key the   *)
(* payload lacks is a field the record lacks.  The html value is           *)
(* [str |-> s] for a string and [list |-> frags] for a list of strings.    *)
(***************************************************************************)
RECURSIVE Join(_)
Join(frags) ==
    IF frags = <<>> THEN <<>>
    ELSE IF Len(frags) = 1 THEN frags[1]
    ELSE frags[1] \o <<" ">> \o Join(Tail(frags))

normalize_body(full) ==
    LET text == IF "text" \in DOMAIN full THEN full.text ELSE <<>>
        html == IF "html" \notin DOMAIN full THEN <<>>
                ELSE IF "list" \in DOMAIN full.html THEN Join(full.html.list)
                ELSE full.html.str
    IN  text \o html

\* the default of full.get("subject", ...), line 162, letter by letter
NO_SUBJECT == <<"{BE}", "{ie}", "{ze}", " ", "{te}", "{ie}", "{em}", "{yeru}">>

\* line 166: drop every "Z", parse the ISO timestamp, format its hour and minute
time_str(createdAt) ==
    LET iso == SelectSeq(createdAt, LAMBDA c : c # "Z")
    IN  SubSeq(iso, 12, 16)

\* lines 162-174: the entry appended to lines for one message detail (the quote
\* stands for the backquote of the Markdown code span, the hyphen for the dash)
ResultLine(full) ==
    LET subject == IF "subject" \in DOMAIN full THEN full.subject ELSE NO_SUBJECT
        body == normalize_body(full)
        code == extract_code(body)
    IN  [service |-> detect_service(subject \o body),
         subject |-> subject,
         time |-> time_str(full.createdAt),
         code_text |-> IF code # None THEN <<"'">> \o code.str \o <<"'">> ELSE <<"-">>]

(***************************************************************************)
(* The Session dataclass, lines 30-35, and the dict SESSIONS, line 37.     *)
(***************************************************************************)
Session(address, password, token, account_id) ==
    [address |-> address, password |-> password, token |-> token, account_id |-> account_id]

\* SESSIONS.get(user_id), lines 138 and 149
Get(S, u) == IF u \in DOMAIN S THEN S[u] ELSE None

\* A store that keeps the first session of a user (dict.setdefault).
Put_KeepFirst(S, u, s) == IF u \in DOMAIN S THEN S ELSE [k \in DOMAIN S \cup {u} |-> IF k = u THEN s ELSE S[k]]

\* A store rebuilt around the one new entry (SESSIONS = {user_id: s}).
Put_Replace(S, u, s) == [k \in {u} |-> s]

\* SESSIONS[user_id] = s, line 130
Put(S, u, s) == [k \in DOMAIN S \cup {u} |-> IF k = u THEN s ELSE S[k]]

(***************************************************************************)
(* The world of the handlers: users, handler invocation slots, what the    *)
(* secrets module draws and what the provider answers.                     *)
(***************************************************************************)
Users == {"u1", "u2"}
Tasks == {"t1", "t2"}
Buttons == {"menu", "new", "current", "code"}       \* callback_data of lines 98-105
HexDraws == {"0a0a0a0a0a", "f1f1f1f1f1"}            \* secrets.token_hex(5)
Passwords == {"pwA", "pwB"}                         \* secrets.token_urlsafe(12)
Tokens == {"tokA", "tokB"}
AccountIds == {"acc1", "acc2"}
DomainLists == {<<>>, <<"d1.test", "d2.test">>}

\* What _request gives back: an exception (raise_for_status, a transport error), or the parsed body.
HttpError == [ok |-> FALSE]
Ok(body) == [ok |-> TRUE, body |-> body]

\* One _request issued by a client method, lines 44-70.
\* The headers are a set of <<name, value>> pairs: empty without a token (lines 45-47).
NoToken == ""
Request(method, path, token, json) ==
    [method |-> method, path |-> path,
     headers |-> IF token = NoToken THEN {} ELSE {<<"Authorization", "Bearer", token>>},
     json |-> json]

ReqDomains == Request("GET", <<"/domains?page=1">>, NoToken, None)
ReqAccount(address, password) ==
    Request("POST", <<"/accounts">>, NoToken, [address |-> address, password |-> password])
ReqToken(address, password) ==
    Request("POST", <<"/token">>, NoToken, [address |-> address, password |-> password])
ReqMe(token) == Request("GET", <<"/me">>, token, None)
ReqMessages(token) == Request("GET", <<"/messages?page=1">>, token, None)
ReqMessage(token, mid) == Request("GET", <<"/messages/", mid>>, token, None)

\* What is handed to q.edit_message_text: the text (its literal, then what is
\* formatted into it) and the keyboard shown under it.
Reply(text, keyboard) == [text |-> text, keyboard |-> keyboard]
MENU_TEXT == "Choose an action."            \* line 119
CREATED_TEXT == "Mailbox created:"          \* line 132
NO_MAILBOX_TEXT == "No mailbox created."    \* line 140
CURRENT_TEXT == "Current mailbox:"          \* line 143
NO_SESSION_TEXT == "Create a mailbox first."    \* line 151
NO_MESSAGES_TEXT == "No messages yet."      \* line 156
CODES_HEADER == "Codes from messages:"      \* line 159

(***************************************************************************)
(* The locals of one run of handle_buttons.  pc is the await the run is    *)
(* suspended at; "idle" is a slot with no run, "raised" a run that ended   *)
(* with an exception.  calls is the list of requests the run has issued    *)
(* so far.                                                                 *)
(***************************************************************************)
IdleTask ==
    [pc |-> "idle", data |-> "", user_id |-> "", address |-> <<>>, password |-> "",
     token |-> "", me |-> None, s |-> None, msgs |-> <<>>, k |-> 0, lines |-> <<>>, reply |-> None,
     calls |-> <<>>, error |-> ""]

\* An exception leaves handle_buttons: the frame and its locals are gone.
Raised(task, where) ==
    [IdleTask EXCEPT !.pc = "raised", !.data = task.data, !.user_id = task.user_id,
                     !.error = where]

Init ==
    /\ SESSIONS = <<>>
    /\ tasks = [t \in Tasks |-> IdleTask]
    /\ lastPut = [u \in Users |-> None]
    /\ detail = None
    /\ tin = <<>>
    /\ tout = None

\* An update with a callback query arrives and handle_buttons is called: lines 112-114.
Start(t, u, d) ==
    /\ tasks[t].pc \in {"idle", "raised"}
    /\ tasks' = [tasks EXCEPT ![t] = [IdleTask EXCEPT !.pc = "answer", !.data = d, !.user_id = u]]
    /\ UNCHANGED <<SESSIONS, lastPut, detail, tin, tout>>

\* The "code" branch without the test of line 150: the list is asked for with no token.
AnswerCode_NoCheck(task, s) ==
    [task EXCEPT !.pc = "list_messages", !.s = s,
                 !.calls = Append(@, ReqMessages(IF s = None THEN NoToken ELSE s.token))]

\* lines 148-154: the "code" branch up to its first await
AnswerCode(task, s) ==
    IF s = None
    THEN [task EXCEPT !.pc = "edit", !.s = s, !.reply = Reply(<<NO_SESSION_TEXT>>, "main")]
    ELSE [task EXCEPT !.pc = "list_messages", !.s = s,
                      !.calls = Append(@, ReqMessages(s.token))]

\* q.answer() returns: lines 115-122, 137-146 and 148-154, up to the next await.
Answer(t) ==
    LET task == tasks[t]
        s == Get(SESSIONS, task.user_id)
    IN  /\ task.pc = "answer"
        /\ \/ /\ task.data = "menu"
              /\ tasks' = [tasks EXCEPT ![t] = [task EXCEPT !.pc = "edit",
                              !.reply = Reply(<<MENU_TEXT>>, "main")]]
           \/ /\ task.data = "new"
              /\ tasks' = [tasks EXCEPT ![t] = [task EXCEPT !.pc = "get_domains",
                              !.calls = Append(@, ReqDomains)]]
           \/ /\ task.data = "current"
              /\ tasks' = [tasks EXCEPT ![t] = [task EXCEPT !.pc = "edit", !.s = s,
                              !.reply = IF s = None THEN Reply(<<NO_MAILBOX_TEXT>>, "main")
                                        ELSE Reply(<<CURRENT_TEXT, s.address>>, "main")]]
           \/ /\ task.data = "code"
              /\ tasks' = [tasks EXCEPT ![t] = AnswerCode(task, s)]
        /\ UNCHANGED <<SESSIONS, lastPut, detail, tin, tout>>

\* client.get_domains() returns or raises: lines 122-126.
GetDomainsReturn(t, resp, hex, pw) ==
    LET task == tasks[t]
    IN  /\ task.pc = "get_domains"
        /\ \/ /\ ~resp.ok
              /\ tasks' = [tasks EXCEPT ![t] = Raised(task, "get_domains")]
           \/ /\ resp.ok
              /\ resp.body = <<>>
              /\ tasks' = [tasks EXCEPT ![t] = Raised(task, "domains[0]")]
           \/ /\ resp.ok
              /\ resp.body # <<>>
              /\ LET address == <<"tg", hex, "@", resp.body[1]>>
                 IN  tasks' = [tasks EXCEPT ![t] = [task EXCEPT !.pc = "create_account",
                                   !.address = address, !.password = pw,
                                   !.calls = Append(@, ReqAccount(address, pw))]]
        /\ UNCHANGED <<SESSIONS, lastPut, detail, tin, tout>>

\* A create that asks for the account a second time when the first request failed.
CreateAccountReturn_Retry(t, resp) ==
    LET task == tasks[t]
    IN  /\ task.pc = "create_account"
        /\ \/ /\ ~resp.ok
              /\ tasks' = [tasks EXCEPT ![t] =
                              IF Len(task.calls) < 3
                              THEN [task EXCEPT !.calls = Append(@, ReqAccount(task.address, task.password))]
                              ELSE Raised(task, "create_account")]
           \/ /\ resp.ok
              /\ tasks' = [tasks EXCEPT ![t] = [task EXCEPT !.pc = "get_token",
                              !.calls = Append(@, ReqToken(task.address, task.password))]]
        /\ UNCHANGED <<SESSIONS, lastPut, detail, tin, tout>>

\* client.create_account() returns or raises: lines 126-127.
CreateAccountReturn(t, resp) ==
    LET task == tasks[t]
    IN  /\ task.pc = "create_account"
        /\ \/ /\ ~resp.ok
              /\ tasks' = [tasks EXCEPT ![t] = Raised(task, "create_account")]
           \/ /\ resp.ok
              /\ tasks' = [tasks EXCEPT ![t] = [task EXCEPT !.pc = "get_token",
                              !.calls = Append(@, ReqToken(task.address, task.password))]]
        /\ UNCHANGED <<SESSIONS, lastPut, detail, tin, tout>>

\* A create that stores the session as soon as it has the token, before the profile is fetched.
GetTokenReturn_StoresEarly(t, resp) ==
    LET task == tasks[t]
    IN  /\ task.pc = "get_token"
        /\ \/ /\ ~resp.ok
              /\ tasks' = [tasks EXCEPT ![t] = Raised(task, "get_token")]
              /\ UNCHANGED <<SESSIONS, lastPut>>
           \/ /\ resp.ok
              /\ tasks' = [tasks EXCEPT ![t] = [task EXCEPT !.pc = "me",
                              !.token = resp.body.token,
                              !.calls = Append(@, ReqMe(resp.body.token))]]
              /\ SESSIONS' = Put(SESSIONS, task.user_id,
                                 Session(task.address, task.password, resp.body.token, ""))
              /\ UNCHANGED lastPut
        /\ UNCHANGED <<detail, tin, tout>>

\* client.get_token() returns or raises: lines 127-128.
GetTokenReturn(t, resp) ==
    LET task == tasks[t]
    IN  /\ task.pc = "get_token"
        /\ \/ /\ ~resp.ok
              /\ tasks' = [tasks EXCEPT ![t] = Raised(task, "get_token")]
           \/ /\ resp.ok
              /\ tasks' = [tasks EXCEPT ![t] = [task EXCEPT !.pc = "me",
                              !.token = resp.body.token,
                              !.calls = Append(@, ReqMe(resp.body.token))]]
        /\ UNCHANGED <<SESSIONS, lastPut, detail, tin, tout>>

\* A create that updates the stored Session object of its user field by field
\* instead of storing a new one: a run that holds the object sees the new fields.
MeReturn_InPlace(t, resp) ==
    LET task == tasks[t]
    IN  /\ task.pc = "me"
        /\ \/ /\ ~resp.ok
              /\ tasks' = [tasks EXCEPT ![t] = Raised(task, "me")]
              /\ UNCHANGED <<SESSIONS, lastPut>>
           \/ /\ resp.ok
              /\ LET new == Session(task.address, task.password, task.token, resp.body.id)
                     old == Get(SESSIONS, task.user_id)
                 IN  /\ SESSIONS' = Put(SESSIONS, task.user_id, new)
                     /\ lastPut' = [lastPut EXCEPT ![task.user_id] = new]
                     /\ tasks' = [r \in DOMAIN tasks |->
                                     IF r = t
                                     THEN [task EXCEPT !.pc = "edit", !.me = resp.body,
                                                !.reply = Reply(<<CREATED_TEXT, task.address>>, "main")]
                                     ELSE IF old # None /\ tasks[r].s = old
                                          THEN [tasks[r] EXCEPT !.s = new]
                                          ELSE tasks[r]]
        /\ UNCHANGED <<detail, tin, tout>>

\* client.me() returns or raises: lines 128-135.
MeReturn(t, resp) ==
    LET task == tasks[t]
    IN  /\ task.pc = "me"
        /\ \/ /\ ~resp.ok
              /\ tasks' = [tasks EXCEPT ![t] = Raised(task, "me")]
              /\ UNCHANGED <<SESSIONS, lastPut>>
           \/ /\ resp.ok
              /\ LET new == Session(task.address, task.password, task.token, resp.body.id)
                 IN  /\ SESSIONS' = Put(SESSIONS, task.user_id, new)
                     /\ lastPut' = [lastPut EXCEPT ![task.user_id] = new]
                     /\ tasks' = [tasks EXCEPT ![t] = [task EXCEPT !.pc = "edit",
                                     !.me = resp.body,
                                     !.reply = Reply(<<CREATED_TEXT, task.address>>, "main")]]
        /\ UNCHANGED <<detail, tin, tout>>

(***************************************************************************)
(* The provider's inbox.  A message list is a sequence of summaries        *)
(* [id |-> mid]; the detail of message mid is MessageOf(mid).  Bodies,     *)
(* subjects and timestamps differ from one message to the next, so that    *)
(* the entry computed for one message is not the entry of another.         *)
(***************************************************************************)
DigitChar(n) == <<"0", "1", "2", "3", "4", "5", "6", "7", "8", "9">>[(n % 10) + 1]

IsoTime(minute, zulu) ==
    <<"2", "0", "2", "4", "-", "0", "5", "-", "0", "1", "T", "1", "0", ":", "0", minute, ":", "0", "0">>
        \o (IF zulu THEN <<"Z">> ELSE <<"+", "0", "0", ":", "0", "0">>)

MessageOf(mid) ==
    CASE mid % 3 = 1 ->
            [id |-> mid, subject |-> <<"A", "d", "G", "u", "a", "r", "d", " ", DigitChar(mid)>>,
             text |-> <<"c", "o", "d", "e", " ", "1", "2", DigitChar(mid), " ", "4", "5", "6">>,
             createdAt |-> IsoTime(DigitChar(mid), TRUE)]
      [] mid % 3 = 2 ->
            [id |-> mid,
             html |-> [list |-> << <<"<", "b", ">", "6", "5">>, <<"4", "3", "2", DigitChar(mid), "<", "b", ">">> >>],
             createdAt |-> IsoTime(DigitChar(mid), FALSE)]
      [] OTHER ->
            [id |-> mid, subject |-> <<"R", "e", " ", DigitChar(mid)>>,
             text |-> <<"n", "o", " ", "c", "o", "d", "e">>,
             html |-> [str |-> <<"<", "i", ">", "u", "b", "u", "s", "t", "<", "i", ">">>],
             createdAt |-> IsoTime(DigitChar(mid), FALSE)]

InboxLists(max) ==
    {[i \in 1..n |-> [id |-> i]] : n \in 0..max}
        \cup {[i \in 1..n |-> [id |-> n + 1 - i]] : n \in 2..max}

\* The loop over the whole list: msgs instead of msgs[:5].
Shown_All(msgs) == msgs

\* msgs[:5], line 160
Shown(msgs) == SubSeq(msgs, 1, IF Len(msgs) < MaxShown THEN Len(msgs) ELSE MaxShown)

\* Without the test of line 155: an empty list runs the loop zero times and the
\* header alone is shown.
AfterList_NoEmptyCheck(task, msgs) ==
    IF msgs = <<>>
    THEN [task EXCEPT !.pc = "edit", !.msgs = msgs, !.lines = <<CODES_HEADER>>,
                      !.reply = Reply(<<CODES_HEADER>>, "back")]
    ELSE [task EXCEPT !.pc = "get_message", !.msgs = msgs, !.lines = <<CODES_HEADER>>, !.k = 1,
                      !.calls = Append(@, ReqMessage(task.s.token, Shown(msgs)[1].id))]

\* A loop that takes the token from the store again (SESSIONS[user_id].token)
\* instead of the session bound at line 149.
AfterList_RereadsStore(task, msgs) ==
    IF msgs = <<>>
    THEN [task EXCEPT !.pc = "edit", !.msgs = msgs, !.reply = Reply(<<NO_MESSAGES_TEXT>>, "main")]
    ELSE [task EXCEPT !.pc = "get_message", !.msgs = msgs, !.lines = <<CODES_HEADER>>, !.k = 1,
                      !.calls = Append(@, ReqMessage(SESSIONS[task.user_id].token, Shown(msgs)[1].id))]

\* lines 154-161: msgs is bound to the list, up to the next await
AfterList(task, msgs) ==
    IF msgs = <<>>
    THEN [task EXCEPT !.pc = "edit", !.msgs = msgs, !.reply = Reply(<<NO_MESSAGES_TEXT>>, "main")]
    ELSE [task EXCEPT !.pc = "get_message", !.msgs = msgs, !.lines = <<CODES_HEADER>>, !.k = 1,
                      !.calls = Append(@, ReqMessage(task.s.token, Shown(msgs)[1].id))]

\* A fetch codes run that drops the session of its user when the list request fails.
ListMessagesReturn_DropsSession(t, resp) ==
    LET task == tasks[t]
    IN  /\ task.pc = "list_messages"
        /\ \/ /\ ~resp.ok
              /\ tasks' = [tasks EXCEPT ![t] = Raised(task, "list_messages")]
              /\ SESSIONS' = [k \in DOMAIN SESSIONS \ {task.user_id} |-> SESSIONS[k]]
           \/ /\ resp.ok
              /\ tasks' = [tasks EXCEPT ![t] = AfterList(task, resp.body)]
              /\ UNCHANGED SESSIONS
        /\ UNCHANGED <<lastPut, detail, tin, tout>>

\* client.list_messages() returns or raises: lines 154-161.
ListMessagesReturn(t, resp) ==
    LET task == tasks[t]
    IN  /\ task.pc = "list_messages"
        /\ \/ /\ ~resp.ok
              /\ tasks' = [tasks EXCEPT ![t] = Raised(task, "list_messages")]
           \/ /\ resp.ok
              /\ tasks' = [tasks EXCEPT ![t] = AfterList(task, resp.body)]
        /\ UNCHANGED <<SESSIONS, lastPut, detail, tin, tout>>

\* client.get_message() returns or raises: lines 161-180, one turn of the loop.
GetMessageReturn(t, resp) ==
    LET task == tasks[t]
    IN  /\ task.pc = "get_message"
        /\ \/ /\ ~resp.ok
              /\ tasks' = [tasks EXCEPT ![t] = Raised(task, "get_message")]
           \/ /\ resp.ok
              /\ task.k < Len(Shown(task.msgs))
              /\ tasks' = [tasks EXCEPT ![t] = [task EXCEPT
                              !.lines = Append(@, ResultLine(resp.body)), !.k = @ + 1,
                              !.calls = Append(@, ReqMessage(task.s.token, Shown(task.msgs)[task.k + 1].id))]]
           \/ /\ resp.ok
              /\ task.k >= Len(Shown(task.msgs))
              /\ tasks' = [tasks EXCEPT ![t] = [task EXCEPT !.pc = "edit",
                              !.lines = Append(@, ResultLine(resp.body)),
                              !.reply = Reply(Append(task.lines, ResultLine(resp.body)), "back")]]
        /\ UNCHANGED <<SESSIONS, lastPut, detail, tin, tout>>

\* q.edit_message_text() returns and handle_buttons with it.
EditReturn(t) ==
    /\ tasks[t].pc = "edit"
    /\ tasks' = [tasks EXCEPT ![t] = IdleTask]
    /\ UNCHANGED <<SESSIONS, lastPut, detail, tin, tout>>

(***************************************************************************)
(* What the provider may answer to each request.                           *)
(***************************************************************************)
DomainResponses == {HttpError} \cup {Ok(l) : l \in DomainLists}
AccountResponses == {HttpError, Ok(None)}
TokenResponses(tokens) == {HttpError} \cup {Ok([token |-> k]) : k \in tokens}
MeResponses(ids) == {HttpError} \cup {Ok([id |-> a]) : a \in ids}
ListResponses(max) == {HttpError} \cup {Ok(l) : l \in InboxLists(max)}
MessageResponses(task) ==
    IF task.pc = "get_message"
    THEN {HttpError, Ok(MessageOf(Shown(task.msgs)[task.k].id))}
    ELSE {}

\* One step of the handler run in slot t, in a world W of possible draws and answers.
Step(t, W) ==
    \/ \E u \in W.users, d \in Buttons : Start(t, u, d)
    \/ Answer(t)
    \/ \E resp \in DomainResponses, hex \in W.hex, pw \in W.passwords : GetDomainsReturn(t, resp, hex, pw)
    \/ \E resp \in AccountResponses : CreateAccountReturn(t, resp)
    \/ \E resp \in TokenResponses(W.tokens) : GetTokenReturn(t, resp)
    \/ \E resp \in MeResponses(W.ids) : MeReturn(t, resp)
    \/ \E resp \in ListResponses(W.maxMsgs) : ListMessagesReturn(t, resp)
    \/ \E resp \in MessageResponses(tasks[t]) : GetMessageReturn(t, resp)
    \/ EditReturn(t)

\* Handlers interleave at their awaits.
WorldConc ==
    [users |-> Users, hex |-> HexDraws, passwords |-> {"pwA"}, tokens |-> Tokens, ids |-> {"acc1"},
     maxMsgs |-> MaxMsgsConc]

Next == \E t \in Tasks : Step(t, WorldConc)

Spec == Init /\ [][Next]_vars

\* Handlers run one at a time: a run starts when the one before it has ended.
WorldSeq ==
    [users |-> Users, hex |-> HexDraws, passwords |-> Passwords, tokens |-> Tokens, ids |-> AccountIds,
     maxMsgs |-> MaxMsgs]

NextSeq == Step("t1", WorldSeq)

SpecSeq == Init /\ [][NextSeq]_vars

\* Handlers of one user interleave, with every draw and every answer of the provider.
WorldSameUser ==
    [users |-> {"u1"}, hex |-> HexDraws, passwords |-> Passwords, tokens |-> Tokens, ids |-> AccountIds,
     maxMsgs |-> MaxMsgsConc]

NextSameUser == \E t \in Tasks : Step(t, WorldSameUser)

SpecSameUser == Init /\ [][NextSameUser]_vars

(***************************************************************************)
(* The text pipeline on its own: extract_code applied to a string, and     *)
(* the clean-up of lines 83-84 applied once more to its own result.        *)
(***************************************************************************)
Alphabet == {"1", " ", "<", ">", "a"}
CharStrings == UNION {[1..n -> Alphabet] : n \in 0..MaxLen}

Parts == { <<"1", "2", "3", "4", "5", "6">>, <<"6", "5", "4", "3", "2", "1">>,
           <<"1", "2", "3", "4", "5">>, <<"7">>, <<" ">>, <<"a">>, <<"_">>, <<"-">>,
           <<"<">>, <<">">> }
RECURSIVE Flatten(_)
Flatten(ps) == IF ps = <<>> THEN <<>> ELSE Head(ps) \o Flatten(Tail(ps))
PartStrings == {Flatten(ps) : ps \in UNION {[1..n -> Parts] : n \in 0..MaxParts}}

TextInputs == CharStrings \cup PartStrings

InitText ==
    /\ SESSIONS = <<>>
    /\ tasks = [t \in Tasks |-> IdleTask]
    /\ lastPut = [u \in Users |-> None]
    /\ detail = None
    /\ tin \in TextInputs
    /\ tout = None

\* extract_code(tin), lines 80-86
CallExtractCode ==
    /\ tout = None
    /\ tout' = [clean |-> clean_text(tin), code |-> extract_code(tin), again |-> <<>>, n |-> 1]
    /\ UNCHANGED <<SESSIONS, tasks, lastPut, detail, tin>>

\* lines 83-84 applied to the string they produced
CleanAgain ==
    /\ tout # None
    /\ tout.n = 1
    /\ tout' = [tout EXCEPT !.again = clean_text(tout.clean), !.n = 2]
    /\ UNCHANGED <<SESSIONS, tasks, lastPut, detail, tin>>

NextText == CallExtractCode \/ CleanAgain

SpecText == InitText /\ [][NextText]_vars

(***************************************************************************)
(* The message pipeline on its own: lines 163-164 applied to one message   *)
(* detail.  The details carry the code 123456 with its digits split into   *)
(* groups, in the text field or across the html fragments, and text        *)
(* fields that hold angle brackets.                                        *)
(***************************************************************************)
Code6 == <<"1", "2", "3", "4", "5", "6">>
CutSets == SUBSET (1..(CodeLen - 1))
Separators == { <<" ">>, <<"\n">>, <<" ", "\t">>, <<"{U+000B}">> }

\* The code with sep put after every digit whose position is in cuts.
Spaced(cuts, sep) ==
    Flatten([i \in 1..CodeLen |-> IF i \in cuts THEN <<Code6[i]>> \o sep ELSE <<Code6[i]>>])

\* The groups the cuts split the digits from position i on into.
RECURSIVE GroupsFrom(_, _)
GroupsFrom(i, cuts) ==
    LET e == Min({c \in cuts : c >= i} \cup {CodeLen})
    IN  <<SubSeq(Code6, i, e)>> \o (IF e = CodeLen THEN <<>> ELSE GroupsFrom(e + 1, cuts))

\* The groups as html fragments, pre before the first and post after the last.
Fragments(cuts, pre, post) ==
    LET g == GroupsFrom(1, cuts)
    IN  [i \in 1..Len(g) |-> (IF i = 1 THEN pre ELSE <<>>) \o g[i] \o (IF i = Len(g) THEN post ELSE <<>>)]

TextWraps == { <<<<>>, <<>>>>,
               << <<"c", "o", "d", "e", ":", " ">>, <<".">> >>,
               << <<"i", "d", "=">>, <<" ", "o", "k">> >> }
HtmlWraps == { <<<<>>, <<>>>>,
               << <<"<", "p", ">", "c", "o", "d", "e", " ">>, <<"<", "/", "p", ">">> >> }

SplitInText == {[text |-> w[1] \o Spaced(cuts, sep) \o w[2]] :
                    cuts \in CutSets, sep \in Separators, w \in TextWraps}
SplitInHtmlList == {[text |-> <<>>, html |-> [list |-> Fragments(cuts, w[1], w[2])]] :
                        cuts \in CutSets, w \in HtmlWraps}
SplitInHtmlStr == {[html |-> [str |-> w[1] \o Spaced(cuts, sep) \o w[2]]] :
                       cuts \in CutSets, sep \in Separators, w \in HtmlWraps}

\* Details whose text field holds "<" or ">".
AngleTexts == { <<"c", "o", "d", "e", " ", "<", "1", "2", "3", "4", "5", "6", ">">>,
                <<"<", "1", "2", "3", "4", "5", "6", ">">>,
                <<"<", "1", "2", "3", "4", "5", "6">>,
                <<"1", "2", "3", "4", "5", "6", ">">>,
                <<"a", "<", "b", " ", "1", "2", "3", "4", "5", "6">>,
                <<"1", "2", "3", "4", "5", "6", " ", "<", "b">>,
                <<"<", ">", " ", "1", "2", "3", "4", "5", "6">> }
AngleHtmls == { [str |-> <<>>],
                [str |-> <<"<", "i", ">", "x", "<", "/", "i", ">">>],
                [list |-> << <<"<", "i", ">">>, <<"6", "5", "4", "3", "2", "1">> >>] }
AngleDetails == {[text |-> t] : t \in AngleTexts}
                    \cup {[text |-> t, html |-> h] : t \in AngleTexts, h \in AngleHtmls}

DetailInputs == SplitInText \cup SplitInHtmlList \cup SplitInHtmlStr \cup AngleDetails

InitBody ==
    /\ SESSIONS = <<>>
    /\ tasks = [t \in Tasks |-> IdleTask]
    /\ lastPut = [u \in Users |-> None]
    /\ detail \in DetailInputs
    /\ tin = <<>>
    /\ tout = None

\* body = normalize_body(full); code = extract_code(body): lines 163-164
ExtractFromDetail ==
    /\ tout = None
    /\ tin' = normalize_body(detail)
    /\ tout' = [clean |-> clean_text(normalize_body(detail)),
                code |-> extract_code(normalize_body(detail)), again |-> <<>>, n |-> 1]
    /\ UNCHANGED <<SESSIONS, tasks, lastPut, detail>>

NextBody == ExtractFromDetail

SpecBody == InitBody /\ [][NextBody]_vars

(***************************************************************************)
(* The classifier on its own: detect_service applied to a string built     *)
(* from the keywords of the rules, in lower, upper and mixed case, from    *)
(* near misses of them, and from letters that complete a near miss.        *)
(***************************************************************************)
ServiceParts == { <<"a", "d", "g", "u", "a", "r", "d">>, <<"A", "d", "G", "u", "a", "r", "d">>,
                  <<"y", "o", "u", "b", "u", "s", "t">>, <<"{YU}", "{be}", "{u}", "{es}", "{te}">>,
                  <<"U", "B", "U", "S", "T">>, <<"a", "d", "g", "u", "a", "r">>,
                  <<"u", "b", "u", "s">>, <<" ">>, <<"t">>, <<"D">> }
ServiceInputs == {Flatten(ps) : ps \in UNION {[1..n -> ServiceParts] : n \in 0..MaxParts}}

InitService ==
    /\ SESSIONS = <<>>
    /\ tasks = [t \in Tasks |-> IdleTask]
    /\ lastPut = [u \in Users |-> None]
    /\ detail = None
    /\ tin \in ServiceInputs
    /\ tout = None

\* detect_service(tin), lines 73-78
CallDetectService ==
    /\ tout = None
    /\ tout' = [service |-> detect_service(tin)]
    /\ UNCHANGED <<SESSIONS, tasks, lastPut, detail, tin>>

NextService == CallDetectService

SpecService == InitService /\ [][NextService]_vars

(***************************************************************************)
(* Properties of create mailbox and of the Session Store.                  *)
(***************************************************************************)
\* The run in slot t takes this step.
Steps(t) == tasks'[t] # tasks[t]

\* The step in which a create mailbox run resumes from a successful client.me().
CreateCompletes(t) ==
    /\ tasks[t].data = "new"
    /\ tasks[t].pc = "me"
    /\ tasks'[t].pc = "edit"

CreateErrors == {"get_domains", "domains[0]", "create_account", "get_token", "me"}

\* C1: create mailbox is all-or-nothing.  Every step of a "new" run other than
\* the return of a successful fetchProfile leaves SESSIONS as it is, and a run
\* that fails (at listDomains, an empty domain list, createAccount, obtainToken
\* or fetchProfile) fails from an await before that step: a failing run writes
\* nothing, so the entry of its user is what the run found.
C1_CreateAllOrNothing ==
    [][\A t \in Tasks :
          /\ (tasks[t].data = "new" /\ Steps(t) /\ ~CreateCompletes(t)) => SESSIONS' = SESSIONS
          /\ (tasks[t].data = "new" /\ Steps(t) /\ tasks'[t].pc = "raised")
                => /\ tasks[t].pc \in {"get_domains", "create_account", "get_token", "me"}
                   /\ tasks'[t].error \in CreateErrors
                   /\ SESSIONS' = SESSIONS]_vars

\* A create for a user who has a session failed at fetchProfile, its last call,
\* and the session stored before is still the entry.
C1_Witness ==
    \E t \in Tasks :
        /\ tasks[t].pc = "raised"
        /\ tasks[t].data = "new"
        /\ tasks[t].error = "me"
        /\ tasks[t].user_id \in DOMAIN SESSIONS
        /\ SESSIONS[tasks[t].user_id] = lastPut[tasks[t].user_id]

\* C2: the Session Store is last-write-wins per key.  The entry of u is always
\* the session of the most recent put for u (absent if there was none); the
\* put of a completing create stores exactly the session built from that run's
\* address, password, token and profile id; and the get of "current" and of
\* "code" returns the session of the most recently completed create for u.
C2_LastWriteWins ==
    /\ [](\A u \in Users : Get(SESSIONS, u) = lastPut[u])
    /\ [][\A t \in Tasks :
            /\ CreateCompletes(t)
                  => Get(SESSIONS', tasks[t].user_id)
                        = Session(tasks[t].address, tasks[t].password, tasks[t].token, tasks'[t].me.id)
            /\ (tasks[t].pc = "answer" /\ Steps(t) /\ tasks[t].data \in {"current", "code"})
                  => tasks'[t].s = lastPut[tasks[t].user_id]]_vars

\* A second put for a user: a reader still holds the session it got before, and
\* the entry is now the session of the create that completed after it.
C2_Witness ==
    \E t, w \in Tasks :
        /\ tasks[t].data = "current"
        /\ tasks[t].pc = "edit"
        /\ tasks[t].s # None
        /\ tasks[t].s # SESSIONS[tasks[t].user_id]
        /\ tasks[w].data = "new"
        /\ tasks[w].pc = "edit"
        /\ tasks[w].user_id = tasks[t].user_id
        /\ SESSIONS[tasks[w].user_id]
              = Session(tasks[w].address, tasks[w].password, tasks[w].token, tasks[w].me.id)

SessionValues ==
    {Session(<<"tg", h, "@", d>>, p, k, a) :
        h \in HexDraws, d \in {"d1.test"}, p \in Passwords, k \in Tokens, a \in AccountIds}

\* C3: sessions are isolated per identity.  A step of a create mailbox run for
\* user u, successful or failed, leaves the entry (or the absence) of every
\* other user as it is, and the store holds, per user, no more than one value,
\* which is a whole Session.
C3_SessionsIsolated ==
    /\ [](/\ DOMAIN SESSIONS \subseteq Users
          /\ \A u \in DOMAIN SESSIONS : SESSIONS[u] \in SessionValues)
    /\ [][\A t \in Tasks : \A v \in Users :
            (tasks[t].data = "new" /\ Steps(t) /\ v # tasks[t].user_id)
                => /\ (v \in DOMAIN SESSIONS') = (v \in DOMAIN SESSIONS)
                   /\ Get(SESSIONS', v) = Get(SESSIONS, v)]_vars

\* Both users have a session, and the two differ: u2's create completed after
\* u1's and left u1's entry alone.
C3_Witness ==
    /\ DOMAIN SESSIONS = Users
    /\ SESSIONS["u1"] # SESSIONS["u2"]
    /\ \E t \in Tasks : tasks[t].data = "new" /\ tasks[t].pc = "edit" /\ tasks[t].user_id = "u2"
                        /\ SESSIONS["u2"].address = tasks[t].address

(***************************************************************************)
(* Properties of fetch codes.                                              *)
(***************************************************************************)
NoSessionReply == Reply(<<NO_SESSION_TEXT>>, "main")
NoMessagesReply == Reply(<<NO_MESSAGES_TEXT>>, "main")

\* The requests of a run that fetch a message detail.
DetailCalls(task) == SelectSeq(task.calls, LAMBDA c : c.path[1] = "/messages/")

\* C4: with no session stored for its user, fetch codes ends in the NoSession
\* state and issues no provider call.  The run that finds no entry replies with
\* the NoSession text at once; a run shows that reply only in this case, having
\* issued no request and built no result list, and the reply is neither the
\* NoMessages reply nor a list of results nor an exception.
C4_NoSession ==
    /\ [][\A t \in Tasks :
            (tasks[t].pc = "answer" /\ Steps(t) /\ tasks[t].data = "code"
                /\ tasks[t].user_id \notin DOMAIN SESSIONS)
                => /\ tasks'[t].pc = "edit"
                   /\ tasks'[t].reply = NoSessionReply
                   /\ tasks'[t].calls = <<>>]_vars
    /\ [](\A t \in Tasks :
            /\ tasks[t].reply = NoSessionReply
                  => /\ tasks[t].data = "code"
                     /\ tasks[t].pc = "edit"
                     /\ tasks[t].s = None
                     /\ tasks[t].calls = <<>>
                     /\ tasks[t].lines = <<>>
                     /\ tasks[t].error = ""
                     /\ tasks[t].reply # NoMessagesReply
                     /\ tasks[t].reply.text[1] # CODES_HEADER
            /\ (tasks[t].data = "code" /\ tasks[t].pc = "raised")
                  => tasks[t].error \in {"list_messages", "get_message"})

\* A user without a session asked for codes while another user has a session.
C4_Witness ==
    \E t \in Tasks :
        /\ tasks[t].data = "code"
        /\ tasks[t].pc = "edit"
        /\ tasks[t].reply = NoSessionReply
        /\ tasks[t].user_id \notin DOMAIN SESSIONS
        /\ DOMAIN SESSIONS # {}

\* C5: fetch codes ends in the NoMessages state exactly when the run had a
\* session and list_messages returned an empty list; the run has then issued
\* the one list request, with the token of the session it read, and no detail
\* request; a run whose list_messages failed has ended with the exception and
\* shows no reply.
C5_NoMessages ==
    \A t \in Tasks :
        /\ (tasks[t].reply = NoMessagesReply)
              <=> (/\ tasks[t].data = "code"
                   /\ tasks[t].pc = "edit"
                   /\ tasks[t].s # None
                   /\ tasks[t].msgs = <<>>)
        /\ tasks[t].reply = NoMessagesReply
              => /\ tasks[t].calls = <<ReqMessages(tasks[t].s.token)>>
                 /\ DetailCalls(tasks[t]) = <<>>
                 /\ tasks[t].lines = <<>>
        /\ tasks[t].pc = "raised"
              => /\ tasks[t].reply = None
                 /\ tasks[t].error # ""
        /\ (tasks[t].data = "code" /\ tasks[t].error = "list_messages")
              => tasks[t].pc = "raised"

\* A run with a session got an empty list.
C5_Witness ==
    \E t \in Tasks :
        /\ tasks[t].reply = NoMessagesReply
        /\ tasks[t].s # None
        /\ tasks[t].user_id \in DOMAIN SESSIONS

MinOf(a, b) == IF a < b THEN a ELSE b

\* C6: a run of fetch codes whose list has n >= 1 items and whose detail
\* fetches all succeeded shows exactly min(n, 5) entries after the header; the
\* i-th entry is the one computed from the detail of the i-th listed id, and
\* the detail requests are those of the first min(n, 5) ids, in list order,
\* each once.  No run issues more than 5 detail requests.
C6_FirstFiveInOrder ==
    \A t \in Tasks :
        /\ Len(DetailCalls(tasks[t])) <= MaxShown
        /\ (tasks[t].data = "code" /\ tasks[t].pc = "edit" /\ Len(tasks[t].msgs) >= 1)
              => LET task == tasks[t]
                     m == MinOf(Len(task.msgs), MaxShown)
                 IN  /\ Len(task.lines) = m + 1
                     /\ task.lines[1] = CODES_HEADER
                     /\ \A i \in 1..m : task.lines[i + 1] = ResultLine(MessageOf(task.msgs[i].id))
                     /\ DetailCalls(task) = [i \in 1..m |-> ReqMessage(task.s.token, task.msgs[i].id)]
                     /\ task.reply = Reply(task.lines, "back")

\* A list of more than 5 items, newest id first, was shown.
C6_Witness ==
    \E t \in Tasks :
        /\ tasks[t].data = "code"
        /\ tasks[t].pc = "edit"
        /\ Len(tasks[t].msgs) > MaxShown
        /\ tasks[t].msgs[1].id > tasks[t].msgs[2].id
        /\ Len(tasks[t].lines) = MaxShown + 1

\* C7: a detail fetch that fails does not abort the batch: no run of fetch
\* codes ends with the exception of a get_message call (the run goes on and
\* shows the entries of the other messages).
C7_DetailFailureTolerated ==
    \A t \in Tasks :
        ~(tasks[t].data = "code" /\ tasks[t].pc = "raised" /\ tasks[t].error = "get_message")

(***************************************************************************)
(* Properties of the text pipeline.                                        *)
(***************************************************************************)
\* A run of exactly 6 digits at i, with no digit before it and none after it.
IsolatedRunAt(s, i) ==
    /\ i + CodeLen - 1 <= Len(s)
    /\ \A j \in i..(i + CodeLen - 1) : IsDigit(s[j])
    /\ (i = 1 \/ ~IsDigit(s[i - 1]))
    /\ (i + CodeLen > Len(s) \/ ~IsDigit(s[i + CodeLen]))

HasIsolatedRun(s) == \E i \in 1..Len(s) : IsolatedRunAt(s, i)
FirstIsolatedRun(s) ==
    SubSeq(s, Min({i \in 1..Len(s) : IsolatedRunAt(s, i)}),
              Min({i \in 1..Len(s) : IsolatedRunAt(s, i)}) + CodeLen - 1)

\* C8: when the normalized string (the string the pattern is searched in)
\* contains a run of 6 digits with a non-digit or the string boundary on each
\* side, extract_code returns the first such run.
C8_ExtractsIsolatedRun ==
    (tout # None /\ HasIsolatedRun(tout.clean)) => tout.code = [str |-> FirstIsolatedRun(tout.clean)]

\* C9: when every digit run of the normalized string is shorter or longer than
\* 6, extract_code returns None; the empty string gives None; and a code that
\* is returned is a whole digit run of the normalized string, never 6 digits
\* out of a longer run.
C9_NoCodeInOtherRuns ==
    tout # None
        => /\ ~HasIsolatedRun(tout.clean) => tout.code = None
           /\ tin = <<>> => tout.code = None
           /\ tout.code # None
                 => \E i \in 1..Len(tout.clean) :
                       /\ IsolatedRunAt(tout.clean, i)
                       /\ tout.code.str = SubSeq(tout.clean, i, i + CodeLen - 1)

\* The normalized string holds a run of 7 or more digits, and no code was returned.
C9_Witness ==
    /\ tout # None
    /\ \E i \in 1..Len(tout.clean) :
          /\ i + CodeLen <= Len(tout.clean)
          /\ \A j \in i..(i + CodeLen) : IsDigit(tout.clean[j])
    /\ tout.code = None

\* C10: the clean-up of lines 83-84 is idempotent: applied to its own result
\* it gives that result again.
C10_CleanIdempotent ==
    (tout # None /\ tout.n = 2) => tout.again = tout.clean

(***************************************************************************)
(* Properties of the message pipeline.                                     *)
(***************************************************************************)
\* The details that carry the code split into groups, with no digit next to it.
SplitCodeDetails == SplitInText \cup SplitInHtmlList \cup SplitInHtmlStr

\* C11: spacing inside a code does not prevent extraction.  For every detail
\* that carries the 6 digits of a code split into any number of groups by
\* whitespace or by html fragment boundaries, with non-digits around the code,
\* normalize_body followed by extract_code returns the 6 digits joined.
C11_SpacedCodeExtracted ==
    (tout # None /\ detail \in SplitCodeDetails) => tout.code = [str |-> Code6]

\* The text field and the joined html of a detail, as normalize_body reads them.
TextOf(d) == IF "text" \in DOMAIN d THEN d.text ELSE <<>>
HtmlOf(d) ==
    IF "html" \notin DOMAIN d THEN <<>>
    ELSE IF "list" \in DOMAIN d.html THEN Join(d.html.list)
    ELSE d.html.str

\* The text holds the code right after a "<", with a ">" somewhere after it.
CodeInAngles(text) ==
    \E i \in 1..Len(text) :
        /\ text[i] = "<"
        /\ i + CodeLen <= Len(text)
        /\ SubSeq(text, i + 1, i + CodeLen) = Code6
        /\ \E k \in (i + CodeLen + 1)..Len(text) : text[k] = ">"

\* C16: tag stripping applies to the html variant only.  The string searched
\* for a code is the text field as it is, followed by the html with its tags
\* removed (then digit-space-digit collapsed); so a code that stands in the
\* text field between a "<" and a later ">" is returned by the pipeline.
C16_TagsStrippedFromHtmlOnly ==
    tout # None
        => /\ tout.clean = CollapseDigits(TextOf(detail) \o StripTags(HtmlOf(detail)))
           /\ CodeInAngles(TextOf(detail)) => tout.code = [str |-> Code6]

(***************************************************************************)
(* Properties of the classifier.                                           *)
(***************************************************************************)
\* Two characters that are equal, or the lower and the upper case of one letter.
SameLetter(a, b) ==
    a = b \/ \E i \in DOMAIN LowerLetters : {a, b} = {LowerLetters[i], UpperLetters[i]}

\* The keyword k occurs in t, the case of the letters ignored.
OccursIgnoringCase(k, t) ==
    \E i \in 1..(Len(t) - Len(k) + 1) : \A j \in 1..Len(k) : SameLetter(t[i + j - 1], k[j])

\* Some keyword of the r-th declared rule occurs in t.
RuleOccurs(r, t) ==
    \E j \in DOMAIN SERVICE_RULES[r].keys : OccursIgnoringCase(SERVICE_RULES[r].keys[j], t)

\* C12: detect_service returns the label of the first rule, in declaration
\* order, one of whose keywords occurs in the text as a case-insensitive
\* substring: the label of rule r is returned exactly when rule r has such a
\* keyword and no rule declared before it has one; the 'unknown service'
\* label is returned exactly when no rule has one.
C12_FirstMatchingRule ==
    tout # None
        => /\ \A r \in DOMAIN SERVICE_RULES :
                  (tout.service = SERVICE_RULES[r].name)
                      <=> (RuleOccurs(r, tin) /\ \A q \in 1..(r - 1) : ~RuleOccurs(q, tin))
           /\ (tout.service = UNKNOWN_SERVICE) <=> (\A r \in DOMAIN SERVICE_RULES : ~RuleOccurs(r, tin))

\* Keywords of both rules occur, the one of the second rule first in the text
\* and in upper case, and the label of the first declared rule was returned.
C12_Witness ==
    /\ tout # None
    /\ RuleOccurs(1, tin)
    /\ RuleOccurs(2, tin)
    /\ SubSeq(tin, 1, 5) = <<"U", "B", "U", "S", "T">>
    /\ tout.service = SERVICE_RULES[1].name

(***************************************************************************)
(* Properties of interleaved handlers.                                     *)
(***************************************************************************)
\* A session with its four fields, each one a value a create mailbox run can hold.
CompleteSession(s) ==
    /\ DOMAIN s = {"address", "password", "token", "account_id"}
    /\ \E h \in HexDraws, d \in UNION {Range(l) : l \in DomainLists} : s.address = <<"tg", h, "@", d>>
    /\ s.password \in Passwords
    /\ s.token \in Tokens
    /\ s.account_id \in AccountIds

\* The awaits at which a run holds the session it read from the store.
HoldsSession(task) ==
    task.data \in {"current", "code"} /\ task.pc \in {"list_messages", "get_message", "edit"}

\* The session whose four fields are those of the requests and of the profile
\* of one create mailbox run: the address and the password sent to
\* createAccount, which are those sent to obtainToken, the token sent to
\* fetchProfile, and the id of the profile that fetchProfile returned.
BuiltByRun(s, calls, profile) ==
    /\ Len(calls) = 4
    /\ calls[2].json = [address |-> s.address, password |-> s.password]
    /\ calls[3].json = calls[2].json
    /\ calls[4].headers = {<<"Authorization", "Bearer", s.token>>}
    /\ profile.id = s.account_id

\* C13: under interleaving of handlers at their awaits, every value in the
\* Session Store is a complete session, and every value that enters the store
\* enters it whole, in the step in which one create mailbox run of that user
\* completes, with all four fields from that run; a run that has read a
\* session holds a complete session or none, and the session it holds stays
\* as it is until the run ends, whatever the other runs do.
C13_SessionsWhole ==
    /\ [](/\ \A u \in DOMAIN SESSIONS : CompleteSession(SESSIONS[u])
          /\ \A t \in Tasks : (HoldsSession(tasks[t]) /\ tasks[t].s # None) => CompleteSession(tasks[t].s))
    /\ [][/\ \A u \in Users :
                Get(SESSIONS', u) # Get(SESSIONS, u)
                    => \E t \in Tasks :
                          /\ tasks[t].user_id = u
                          /\ CreateCompletes(t)
                          /\ BuiltByRun(SESSIONS'[u], tasks[t].calls, tasks'[t].me)
          /\ \A t \in Tasks :
                (HoldsSession(tasks[t]) /\ HoldsSession(tasks'[t])) => tasks'[t].s = tasks[t].s]_vars

\* A fetch codes run waits for a message detail with the session it read, and
\* the entry of its user is by now the session of a create mailbox run that
\* completed after the read: the two differ in all four fields, and the entry
\* is the session built by that run.
C13_Witness ==
    \E t, w \in Tasks :
        /\ tasks[t].data = "code"
        /\ tasks[t].pc = "get_message"
        /\ tasks[w].data = "new"
        /\ tasks[w].pc = "edit"
        /\ tasks[w].user_id = tasks[t].user_id
        /\ BuiltByRun(SESSIONS[tasks[w].user_id], tasks[w].calls, tasks[w].me)
        /\ tasks[t].s.address # SESSIONS[tasks[t].user_id].address
        /\ tasks[t].s.password # SESSIONS[tasks[t].user_id].password
        /\ tasks[t].s.token # SESSIONS[tasks[t].user_id].token
        /\ tasks[t].s.account_id # SESSIONS[tasks[t].user_id].account_id

(***************************************************************************)
(* Properties of the order of the provider calls.                          *)
(***************************************************************************)
\* The paths of the requests a run has issued, in the order of issue.
PathsOf(task) == [i \in DOMAIN task.calls |-> task.calls[i].path]

\* listDomains, createAccount, obtainToken, fetchProfile
CreatePaths == << <<"/domains?page=1">>, <<"/accounts">>, <<"/token">>, <<"/me">> >>
ListPath == <<"/messages?page=1">>

\* How many requests a create mailbox run has issued when it waits at pc.
IssuedAt(pc) ==
    CASE pc = "answer" -> 0
      [] pc = "get_domains" -> 1
      [] pc = "create_account" -> 2
      [] pc = "get_token" -> 3
      [] pc \in {"me", "edit"} -> 4

\* The call a run waits for at pc; a run that raises fails at this call.
Awaits == {"get_domains", "create_account", "get_token", "me", "list_messages", "get_message"}

\* C14: nothing is retried and the steps are strictly ordered.  A create
\* mailbox run has issued, at each of its awaits, exactly the calls up to the
\* one it waits for, in the order listDomains, createAccount, obtainToken,
\* fetchProfile, each once, with the results of the calls before (the address
\* built from the domain list, the token obtained); the store is written only
\* in the step that follows the return of fetchProfile.  A fetch codes run
\* issues listMessages once, before every detail fetch, and fetches no message
\* id twice; menu and current issue no call.  Every step issues at most one
\* call; a run raises only out of the call it waits for, issues nothing in
\* that step, and is over: the next step of its slot is a new run.
C14_OrderedNoRetry ==
    /\ [](\A t \in Tasks :
            LET task == tasks[t]
            IN  /\ (task.data = "new" /\ task.pc # "raised")
                      => /\ PathsOf(task) = SubSeq(CreatePaths, 1, IssuedAt(task.pc))
                         /\ task.pc \in {"create_account", "get_token", "me", "edit"}
                               => /\ task.address # <<>>
                                  /\ task.calls[2].json = [address |-> task.address, password |-> task.password]
                         /\ task.pc \in {"get_token", "me", "edit"} => task.calls[3].json = task.calls[2].json
                         /\ task.pc \in {"me", "edit"} => task.token \in Tokens
                         /\ (task.pc = "edit") <=> (task.me # None)
                /\ (task.data = "code" /\ task.calls # <<>>)
                      => /\ task.calls[1].path = ListPath
                         /\ \A i \in 2..Len(task.calls) : task.calls[i].path[1] = "/messages/"
                         /\ \A i, j \in 2..Len(task.calls) : i # j => task.calls[i].path # task.calls[j].path
                         /\ task.pc = "get_message" => Len(task.lines) = Len(task.calls) - 1
                /\ task.data \in {"menu", "current"} => task.calls = <<>>)
    /\ [][\A t \in Tasks :
            /\ SESSIONS' # SESSIONS
                  => \E w \in Tasks : /\ tasks[w].pc = "me"
                                      /\ tasks'[w].pc = "edit"
                                      /\ PathsOf(tasks[w]) = CreatePaths
            /\ (Steps(t) /\ tasks'[t].pc \notin {"answer", "raised", "idle"})
                  => \/ tasks'[t].calls = tasks[t].calls
                     \/ /\ Len(tasks'[t].calls) = Len(tasks[t].calls) + 1
                        /\ SubSeq(tasks'[t].calls, 1, Len(tasks[t].calls)) = tasks[t].calls
            /\ (Steps(t) /\ tasks'[t].pc = "raised")
                  => /\ tasks[t].pc \in Awaits
                     /\ tasks'[t].error \in {tasks[t].pc, "domains[0]"}
                     /\ tasks'[t].calls = <<>>
                     /\ SESSIONS' = SESSIONS
            /\ (Steps(t) /\ tasks[t].pc = "raised")
                  => /\ tasks'[t].pc = "answer"
                     /\ tasks'[t].calls = <<>>]_vars

\* A create mailbox run ended at the failure of obtainToken, its third call:
\* fetchProfile was not asked and nothing was stored for its user.
C14_Witness ==
    \E t \in Tasks :
        /\ tasks[t].data = "new"
        /\ tasks[t].pc = "raised"
        /\ tasks[t].error = "get_token"
        /\ tasks[t].user_id \notin DOMAIN SESSIONS
        /\ DOMAIN SESSIONS # {}

(***************************************************************************)
(* Properties of the credentials of the provider calls.                    *)
(***************************************************************************)
\* The headers of a request that carries the token k, and of one that carries none.
Bearer(k) == {<<"Authorization", "Bearer", k>>}
NoCredential == {}

\* C15: every authenticated call carries the right bearer token.  In a create
\* mailbox run listDomains, createAccount and obtainToken carry no token, and
\* fetchProfile carries the token the run has just got from obtainToken for
\* its new address.  In a fetch codes run listMessages and every detail fetch
\* carry the token of the session the run read from the store when it
\* started, also when the entry of its user has been overwritten since.
C15_RightBearerToken ==
    /\ [](\A t \in Tasks :
            LET task == tasks[t]
            IN  /\ task.data = "new"
                      => \A i \in DOMAIN task.calls :
                            IF task.calls[i].path = <<"/me">>
                            THEN /\ task.token \in Tokens
                                 /\ task.calls[i].headers = Bearer(task.token)
                                 /\ task.calls[i - 1] = ReqToken(task.address, task.password)
                            ELSE task.calls[i].headers = NoCredential
                /\ task.data = "code"
                      => \A i \in DOMAIN task.calls :
                            /\ task.s # None
                            /\ task.calls[i].headers = Bearer(task.s.token))
    /\ [][\A t \in Tasks :
            /\ (tasks[t].pc = "get_token" /\ tasks'[t].pc = "me")
                  => /\ tasks[t].token = NoToken
                     /\ tasks'[t].calls[Len(tasks'[t].calls)].headers = Bearer(tasks'[t].token)
            /\ (tasks[t].pc = "answer" /\ tasks'[t].pc = "list_messages")
                  => /\ tasks'[t].s = Get(SESSIONS, tasks[t].user_id)
                     /\ tasks'[t].calls = <<ReqMessages(Get(SESSIONS, tasks[t].user_id).token)>>
            /\ (tasks[t].pc \in {"list_messages", "get_message"} /\ tasks'[t].pc \in {"get_message", "edit"})
                  => tasks'[t].s = tasks[t].s]_vars

\* A fetch codes run has asked for a message detail with the token of the
\* session it read, after the entry of its user was overwritten by a create
\* mailbox run that got another token.
C15_Witness ==
    \E t \in Tasks :
        /\ tasks[t].data = "code"
        /\ tasks[t].pc = "get_message"
        /\ Len(tasks[t].calls) = 2
        /\ tasks[t].calls[2].headers = Bearer(tasks[t].s.token)
        /\ SESSIONS[tasks[t].user_id].token # tasks[t].s.token
        /\ SESSIONS[tasks[t].user_id].address # tasks[t].s.address

(***************************************************************************)
(* Frame of the read operations.                                           *)
(***************************************************************************)
ReadOperations == {"menu", "current", "code"}

\* C17: the read operations are read-only on the Session Store.  No step of a
\* menu, current or fetch codes run, whatever its outcome (a reply, NoSession,
\* NoMessages or an exception of a provider call), changes the store; the
\* store changes only in the step in which a create mailbox run has all four
\* of its calls behind it and completes, and then only in the entry of that
\* run's user; no step removes an entry.
C17_ReadsLeaveStore ==
    [][/\ \A t \in Tasks :
            (Steps(t) /\ tasks[t].data \in ReadOperations) => SESSIONS' = SESSIONS
       /\ SESSIONS' # SESSIONS
            => \E w \in Tasks :
                  /\ tasks[w].data = "new"
                  /\ tasks[w].pc = "me"
                  /\ tasks'[w].pc = "edit"
                  /\ Len(tasks[w].calls) = 4
                  /\ \A u \in Users \ {tasks[w].user_id} : Get(SESSIONS', u) = Get(SESSIONS, u)
       /\ DOMAIN SESSIONS \subseteq DOMAIN SESSIONS']_vars

\* A fetch codes run ended with the exception of a detail fetch, and the entry
\* of its user is still the session stored by the last create mailbox.
C17_Witness ==
    \E t \in Tasks :
        /\ tasks[t].data = "code"
        /\ tasks[t].pc = "raised"
        /\ tasks[t].error = "get_message"
        /\ tasks[t].user_id \in DOMAIN SESSIONS
        /\ SESSIONS[tasks[t].user_id] = lastPut[tasks[t].user_id]
        /\ DOMAIN SESSIONS = Users

====
